---- MODULE Spec2Model ----
(***************************************************************************)
(* Escrow program (Cluster1/solana-escrow/program): the instruction         *)
(* processor of processor.rs as a state machine over one escrow record      *)
(* account, a handful of token accounts held by the Token Ledger            *)
(* (spl_token), two wallets and the cluster clock.                          *)
(*                                                                         *)
(* Every handler is an operator from the state before the invocation to    *)
(* the triple (result, number of Token Ledger calls issued, tentative      *)
(* state).  Process hands the tentative state to the ledger only when the  *)
(* handler returned Ok: a ProgramResult of Err aborts the transaction.     *)
(*                                                                         *)
(* The instruction codec of instruction.rs (pack, unpack, unpack_amount)   *)
(* works on byte sequences; every transaction of Spec goes through it, and *)
(* CodecSpec runs it on its own over instructions and raw buffers.         *)
(***************************************************************************)
EXTENDS Integers, Sequences, FiniteSets, TLC

(***************************************************************************)
(* Program constants                                                        *)
(***************************************************************************)
\* processor.rs:55   Clock::get()?.slot + 100
LOCK_DURATION == 100
\* processor.rs:251  escrow_info.unlock_time + 1000
GRACE == 1000
\* instruction.rs:75  input.get(..8): the bytes of a u64 amount
AMOUNT_BYTES == 8

(***************************************************************************)
(* Bounds of the model                                                      *)
(***************************************************************************)
\* largest token amount deposited / held by the taker
MaxAmount == 1
\* u64::MAX of the lamport arithmetic, scaled down (checked_add overflows above it)
LamportMax == 4
\* lamports that make the escrow record account rent exempt
RentExemptMin == 1
\* number of values of a byte (256), scaled down: an amount is AMOUNT_BYTES
\* digits of this base, and u64::MAX is ByteBase ^ AMOUNT_BYTES - 1
ByteBase == 5

(***************************************************************************)
(* Identities                                                               *)
(***************************************************************************)
Wallets == {"alice", "bob"}
TokenAccts == {"tmpX", "aliceY", "bobY", "bobX"}
\* Pubkey::find_program_address(&[b"escrow"], program_id)
PDA == "pda"
\* Pubkey::default(), the key read from zeroed account data
NoKey == "none"
\* the clock values the host is observed at: the edges of the lock and of the
\* grace window, for a record whose unlock_time is 0 and for one reset at slot 0
Slots ==
  {0, 1, LOCK_DURATION, GRACE, LOCK_DURATION + GRACE}

VARIABLES
  slot,      \* Clock::get()?.slot
  escrow,    \* the escrow record account: lamports and data
  tokens,    \* Token Ledger: token account -> owner, amount, lamports, open
  lamports,  \* wallet -> lamports
  last,      \* the last invocation: instruction, result, Token Ledger calls issued
  sent,      \* the EscrowInstruction a client has built (self of pack)
  wire,      \* the instruction data in flight
  received,  \* what EscrowInstruction::unpack made of the instruction data
  stage      \* where the instruction is: "idle", "built", "packed", "unpacked"

codec_vars == <<sent, wire, received, stage>>

vars == <<slot, escrow, tokens, lamports, last, sent, wire, received, stage>>

(***************************************************************************)
(* Escrow record (state::Escrow) and its codec                              *)
(***************************************************************************)
\* the record read from a freshly created, zeroed account
ZeroEscrow ==
  [is_initialized |-> FALSE,
   initializer_pubkey |-> NoKey,
   temp_token_account_pubkey |-> NoKey,
   initializer_token_to_receive_account_pubkey |-> NoKey,
   expected_amount |-> 0,
   unlock_time |-> 0]

\* Escrow::unpack_unchecked: the record whatever its initialized flag; only
\* a buffer of the wrong size (the emptied account) is refused
UnpackUnchecked(acct) ==
  IF acct.empty
    THEN [ok |-> FALSE, err |-> "InvalidAccountData", rec |-> ZeroEscrow]
    ELSE [ok |-> TRUE, err |-> "Ok", rec |-> acct.data]

\* Escrow::unpack: fails with UninitializedAccount unless the record is initialized;
\* cleared data reads as not initialized
Unpack(acct) ==
  IF ~acct.empty /\ acct.data.is_initialized
    THEN [ok |-> TRUE, err |-> "Ok", rec |-> acct.data]
    ELSE [ok |-> FALSE, err |-> "UninitializedAccount", rec |-> ZeroEscrow]

\* Rent::is_exempt(lamports, data_len): the minimum balance grows with the
\* data length and is positive even for no data
IsExempt(lams, empty) ==
  lams >= (IF empty THEN 1 ELSE RentExemptMin)

(***************************************************************************)
(* Token Ledger (spl_token) as the processor calls it                       *)
(***************************************************************************)
IsOpenToken(st, a) == a \in TokenAccts /\ st.tok[a].open

LedgerOk(st) == [ok |-> TRUE, err |-> "Ok", st |-> st]
LedgerErr(e, st) == [ok |-> FALSE, err |-> e, st |-> st]

\* spl_token set_authority(AccountOwner): the current owner signs
SetAuthority(st, acct, newOwner, curOwner, signed) ==
  IF ~IsOpenToken(st, acct) THEN LedgerErr("TokenInvalidAccount", st)
  ELSE IF st.tok[acct].owner # curOwner THEN LedgerErr("TokenOwnerMismatch", st)
  ELSE IF ~signed THEN LedgerErr("MissingRequiredSignature", st)
  ELSE LedgerOk([st EXCEPT !.tok[acct].owner = newOwner])

\* spl_token transfer: a transfer of an account to itself checks and moves nothing
Transfer(st, src, dst, authority, signed, amt) ==
  IF ~IsOpenToken(st, src) \/ ~IsOpenToken(st, dst)
    THEN LedgerErr("TokenInvalidAccount", st)
  ELSE IF st.tok[src].amount < amt THEN LedgerErr("TokenInsufficientFunds", st)
  ELSE IF st.tok[src].owner # authority THEN LedgerErr("TokenOwnerMismatch", st)
  ELSE IF ~signed THEN LedgerErr("MissingRequiredSignature", st)
  ELSE IF src = dst THEN LedgerOk(st)
  ELSE LedgerOk([st EXCEPT !.tok[src].amount = @ - amt,
                           !.tok[dst].amount = @ + amt])

\* spl_token close_account: only an empty account closes; its lamports go to dest
CloseAccount(st, acct, dest, authority, signed) ==
  IF ~IsOpenToken(st, acct) THEN LedgerErr("TokenInvalidAccount", st)
  ELSE IF st.tok[acct].amount # 0 THEN LedgerErr("TokenNonNativeHasBalance", st)
  ELSE IF st.tok[acct].owner # authority THEN LedgerErr("TokenOwnerMismatch", st)
  ELSE IF ~signed THEN LedgerErr("MissingRequiredSignature", st)
  ELSE IF st.lam[dest] + st.tok[acct].lamports > LamportMax
    THEN LedgerErr("TokenOverflow", st)
  ELSE LedgerOk([st EXCEPT !.lam[dest] = @ + st.tok[acct].lamports,
                           !.tok[acct] = [owner |-> NoKey, amount |-> 0,
                                          lamports |-> 0, open |-> FALSE]])

LedgerErrors ==
  {"TokenInvalidAccount", "TokenOwnerMismatch", "TokenInsufficientFunds",
   "TokenNonNativeHasBalance", "TokenOverflow"}

\* the result of a handler: ProgramResult, Token Ledger calls issued, tentative state
R(res, cpis, st) == [res |-> res, cpis |-> cpis, st |-> st]

(***************************************************************************)
(* Handlers.  st = [esc, tok, lam] is the state the invocation sees; a is   *)
(* the account list and instruction data the caller supplied:               *)
(*   caller, signer   account 0 and its is_signer flag                      *)
(*   temp             the temp / custody token account                      *)
(*   main             the initializer's main account                        *)
(*   recv             the initializer's token account (to receive)          *)
(*   tsend, trecv     the taker's sending and receiving token accounts      *)
(*   owned, writable  escrow_account.owner == program_id, .is_writable      *)
(*   nacc             number of accounts supplied                           *)
(*   amount           the instruction's amount                              *)
(***************************************************************************)

\* *account.owner == spl_token::id()
OwnedByTokenProgram(a) == a \in TokenAccts

\* state after escrow_info is packed into the record account
InitPacked(st, a, amount) ==
  [st EXCEPT !.esc.data =
     [@ EXCEPT !.is_initialized = TRUE,
               !.initializer_pubkey = a.caller,
               !.temp_token_account_pubkey = a.temp,
               !.initializer_token_to_receive_account_pubkey = a.recv,
               !.expected_amount = amount]]

\* init_checks without lines 78-80: an initialized record is not refused
init_checks_reinit(st, a) ==
  LET un == UnpackUnchecked(st.esc)
  IN  IF a.nacc < 1 THEN "NotEnoughAccountKeys"
      ELSE IF ~a.signer THEN "MissingRequiredSignature"
      ELSE IF a.nacc < 3 THEN "NotEnoughAccountKeys"
      ELSE IF ~OwnedByTokenProgram(a.recv) THEN "IncorrectProgramId"
      ELSE IF a.nacc < 5 THEN "NotEnoughAccountKeys"
      ELSE IF ~IsExempt(st.esc.lamports, st.esc.empty) THEN "NotRentExempt"
      ELSE IF ~un.ok THEN un.err
      ELSE "Ok"

\* init_checks with the initialized test of lines 77-80 made first
init_checks_initialized_first(st, a) ==
  LET un == UnpackUnchecked(st.esc)
  IN  IF a.nacc < 5 THEN "NotEnoughAccountKeys"
      ELSE IF ~un.ok THEN un.err
      ELSE IF un.rec.is_initialized THEN "AccountAlreadyInitialized"
      ELSE IF ~a.signer THEN "MissingRequiredSignature"
      ELSE IF ~OwnedByTokenProgram(a.recv) THEN "IncorrectProgramId"
      ELSE IF ~IsExempt(st.esc.lamports, st.esc.empty) THEN "NotRentExempt"
      ELSE "Ok"

\* process_init_escrow, lines 56-80: the checks made before the record is written
init_checks(st, a) ==
  LET un == UnpackUnchecked(st.esc)
  IN  IF a.nacc < 1 THEN "NotEnoughAccountKeys"
      ELSE IF ~a.signer THEN "MissingRequiredSignature"
      ELSE IF a.nacc < 3 THEN "NotEnoughAccountKeys"
      ELSE IF ~OwnedByTokenProgram(a.recv) THEN "IncorrectProgramId"
      ELSE IF a.nacc < 5 THEN "NotEnoughAccountKeys"
      ELSE IF ~IsExempt(st.esc.lamports, st.esc.empty) THEN "NotRentExempt"
      ELSE IF ~un.ok THEN un.err
      ELSE IF un.rec.is_initialized THEN "AccountAlreadyInitialized"
      ELSE "Ok"

\* process_init_escrow without the ? of line 109: the result of the
\* set_authority call is dropped
process_init_escrow_unchecked(st, now, a, amount) ==
  LET chk == init_checks(st, a)
      packed == InitPacked(st, a, amount)
      cpi == SetAuthority(packed, a.temp, PDA, a.caller, a.signer)
  IN  IF chk # "Ok" THEN R(chk, 0, st)
      ELSE IF a.nacc < 6 THEN R("NotEnoughAccountKeys", 0, packed)
      ELSE R("Ok", 1, cpi.st)

\* Processor::process_init_escrow
process_init_escrow(st, now, a, amount) ==
  LET unlock_time == now + LOCK_DURATION   \* computed, never stored in escrow_info
      chk == init_checks(st, a)
      packed == InitPacked(st, a, amount)
      cpi == SetAuthority(packed, a.temp, PDA, a.caller, a.signer)
  IN  IF chk # "Ok" THEN R(chk, 0, st)
      ELSE IF a.nacc < 6 THEN R("NotEnoughAccountKeys", 0, packed)
      ELSE IF ~cpi.ok THEN R(cpi.err, 1, cpi.st)
      ELSE R("Ok", 1, cpi.st)

\* TokenAccount::unpack of the supplied custody account
UnpackToken(st, acct) ==
  IF IsOpenToken(st, acct)
    THEN [ok |-> TRUE, err |-> "Ok", amount |-> st.tok[acct].amount]
    ELSE [ok |-> FALSE, err |-> "InvalidAccountData", amount |-> 0]

\* lamports.checked_add(escrow_account.lamports()): None above u64::MAX
CheckedAdd(x, y) ==
  IF x + y > LamportMax THEN [ok |-> FALSE, val |-> 0] ELSE [ok |-> TRUE, val |-> x + y]

\* CloseEscrow without lines 227 / 324: the lamports are swept, the data is kept
CloseEscrowKeepsData(st, main, sum) ==
  [st EXCEPT !.lam[main] = sum, !.esc.lamports = 0]

\* processor.rs 222-227 / 319-324: the record account is swept and its data emptied
CloseEscrow(st, main, sum) ==
  [st EXCEPT !.lam[main] = sum,
             !.esc = [lamports |-> 0, empty |-> TRUE, data |-> ZeroEscrow]]

\* exchange_checks without lines 135-137: the taker's amount is not compared
exchange_checks_any_amount(st, a, amount_expected_by_taker) ==
  LET tinfo == UnpackToken(st, a.temp)
      un == Unpack(st.esc)
      escrow_info == un.rec
  IN  IF a.nacc < 1 THEN "NotEnoughAccountKeys"
      ELSE IF ~a.signer THEN "MissingRequiredSignature"
      ELSE IF a.nacc < 4 THEN "NotEnoughAccountKeys"
      ELSE IF ~tinfo.ok THEN tinfo.err
      ELSE IF a.nacc < 7 THEN "NotEnoughAccountKeys"
      ELSE IF ~un.ok THEN un.err
      ELSE IF escrow_info.temp_token_account_pubkey # a.temp THEN "InvalidAccountData"
      ELSE IF escrow_info.initializer_pubkey # a.main THEN "InvalidAccountData"
      ELSE IF escrow_info.initializer_token_to_receive_account_pubkey # a.recv
        THEN "InvalidAccountData"
      ELSE IF a.nacc < 8 THEN "NotEnoughAccountKeys"
      ELSE "Ok"

\* exchange_checks without lines 153-157: the receiving account is not
\* compared with the one stored in the record
exchange_checks_any_receiver(st, a, amount_expected_by_taker) ==
  LET tinfo == UnpackToken(st, a.temp)
      un == Unpack(st.esc)
      escrow_info == un.rec
  IN  IF a.nacc < 1 THEN "NotEnoughAccountKeys"
      ELSE IF ~a.signer THEN "MissingRequiredSignature"
      ELSE IF a.nacc < 4 THEN "NotEnoughAccountKeys"
      ELSE IF ~tinfo.ok THEN tinfo.err
      ELSE IF amount_expected_by_taker # tinfo.amount THEN "ExpectedAmountMismatch"
      ELSE IF a.nacc < 7 THEN "NotEnoughAccountKeys"
      ELSE IF ~un.ok THEN un.err
      ELSE IF escrow_info.temp_token_account_pubkey # a.temp THEN "InvalidAccountData"
      ELSE IF escrow_info.initializer_pubkey # a.main THEN "InvalidAccountData"
      ELSE IF a.nacc < 8 THEN "NotEnoughAccountKeys"
      ELSE "Ok"

\* exchange_checks with the time lock of the record applied to the taker: no
\* Exchange while the clock has not passed unlock_time
exchange_checks_time_locked(st, a, amount_expected_by_taker) ==
  LET tinfo == UnpackToken(st, a.temp)
      un == Unpack(st.esc)
      escrow_info == un.rec
  IN  IF a.nacc < 1 THEN "NotEnoughAccountKeys"
      ELSE IF ~a.signer THEN "MissingRequiredSignature"
      ELSE IF a.nacc < 4 THEN "NotEnoughAccountKeys"
      ELSE IF ~tinfo.ok THEN tinfo.err
      ELSE IF amount_expected_by_taker # tinfo.amount THEN "ExpectedAmountMismatch"
      ELSE IF a.nacc < 7 THEN "NotEnoughAccountKeys"
      ELSE IF ~un.ok THEN un.err
      ELSE IF slot <= escrow_info.unlock_time THEN "TimeConstraintWasNotSatisfied"
      ELSE IF escrow_info.temp_token_account_pubkey # a.temp THEN "InvalidAccountData"
      ELSE IF escrow_info.initializer_pubkey # a.main THEN "InvalidAccountData"
      ELSE IF escrow_info.initializer_token_to_receive_account_pubkey # a.recv
        THEN "InvalidAccountData"
      ELSE IF a.nacc < 8 THEN "NotEnoughAccountKeys"
      ELSE "Ok"

\* process_exchange, lines 119-159: the checks made before the first transfer
exchange_checks(st, a, amount_expected_by_taker) ==
  LET tinfo == UnpackToken(st, a.temp)
      un == Unpack(st.esc)
      escrow_info == un.rec
  IN  IF a.nacc < 1 THEN "NotEnoughAccountKeys"
      ELSE IF ~a.signer THEN "MissingRequiredSignature"
      ELSE IF a.nacc < 4 THEN "NotEnoughAccountKeys"
      ELSE IF ~tinfo.ok THEN tinfo.err
      ELSE IF amount_expected_by_taker # tinfo.amount THEN "ExpectedAmountMismatch"
      ELSE IF a.nacc < 7 THEN "NotEnoughAccountKeys"
      ELSE IF ~un.ok THEN un.err
      ELSE IF escrow_info.temp_token_account_pubkey # a.temp THEN "InvalidAccountData"
      ELSE IF escrow_info.initializer_pubkey # a.main THEN "InvalidAccountData"
      ELSE IF escrow_info.initializer_token_to_receive_account_pubkey # a.recv
        THEN "InvalidAccountData"
      ELSE IF a.nacc < 8 THEN "NotEnoughAccountKeys"
      ELSE "Ok"

\* exchange_legs paying the initializer the custody balance (tinfo.amount) where
\* line 167 pays escrow_info.expected_amount
exchange_legs_pays_deposit(st, a) ==
  LET tinfo == UnpackToken(st, a.temp)
      leg1 == Transfer(st, a.tsend, a.recv, a.caller, a.signer, tinfo.amount)
      leg2 == Transfer(leg1.st, a.temp, a.trecv, PDA, TRUE, tinfo.amount)
      leg3 == CloseAccount(leg2.st, a.temp, a.main, PDA, TRUE)
      sum == CheckedAdd(leg3.st.lam[a.main], leg3.st.esc.lamports)
  IN  IF ~leg1.ok THEN R(leg1.err, 1, leg1.st)
      ELSE IF a.nacc < 9 THEN R("NotEnoughAccountKeys", 1, leg1.st)
      ELSE IF ~leg2.ok THEN R(leg2.err, 2, leg2.st)
      ELSE IF ~leg3.ok THEN R(leg3.err, 3, leg3.st)
      ELSE IF ~sum.ok THEN R("AmountOverflow", 3, leg3.st)
      ELSE R("Ok", 3, CloseEscrow(leg3.st, a.main, sum.val))

\* process_exchange, lines 161-229: the three Token Ledger calls and the sweep
exchange_legs(st, a) ==
  LET tinfo == UnpackToken(st, a.temp)
      escrow_info == Unpack(st.esc).rec
      leg1 == Transfer(st, a.tsend, a.recv, a.caller, a.signer,
                       escrow_info.expected_amount)
      leg2 == Transfer(leg1.st, a.temp, a.trecv, PDA, TRUE, tinfo.amount)
      leg3 == CloseAccount(leg2.st, a.temp, a.main, PDA, TRUE)
      sum == CheckedAdd(leg3.st.lam[a.main], leg3.st.esc.lamports)
  IN  IF ~leg1.ok THEN R(leg1.err, 1, leg1.st)
      ELSE IF a.nacc < 9 THEN R("NotEnoughAccountKeys", 1, leg1.st)
      ELSE IF ~leg2.ok THEN R(leg2.err, 2, leg2.st)
      ELSE IF ~leg3.ok THEN R(leg3.err, 3, leg3.st)
      ELSE IF ~sum.ok THEN R("AmountOverflow", 3, leg3.st)
      ELSE R("Ok", 3, CloseEscrow(leg3.st, a.main, sum.val))

\* Processor::process_exchange
process_exchange(st, a, amount_expected_by_taker) ==
  LET chk == exchange_checks(st, a, amount_expected_by_taker)
  IN  IF chk # "Ok" THEN R(chk, 0, st) ELSE exchange_legs(st, a)

\* processor.rs 251: the window test that rejects the cancellation
TimeConstraintRejects(current_slot, unlock_time) ==
  current_slot > unlock_time /\ unlock_time + GRACE > current_slot

\* cancel_checks without lines 267-269: the signer is not compared with the
\* initializer stored in the record
cancel_checks_any_signer(st, now, a) ==
  LET un == Unpack(st.esc)
      escrow_info == un.rec
      current_slot == now
      tinfo == UnpackToken(st, a.temp)
  IN  IF a.nacc < 1 THEN "NotEnoughAccountKeys"
      ELSE IF ~a.signer THEN "MissingRequiredSignature"
      ELSE IF a.nacc < 5 THEN "NotEnoughAccountKeys"
      ELSE IF ~a.owned \/ ~a.writable THEN "IllegalOwner"
      ELSE IF ~un.ok THEN un.err
      ELSE IF TimeConstraintRejects(current_slot, escrow_info.unlock_time)
        THEN "TimeConstraintWasNotSatisfied"
      ELSE IF escrow_info.temp_token_account_pubkey # a.temp THEN "InvalidAccountData"
      ELSE IF escrow_info.initializer_pubkey # a.main THEN "InvalidAccountData"
      ELSE IF escrow_info.initializer_token_to_receive_account_pubkey # a.recv
        THEN "InvalidAccountData"
      ELSE IF a.nacc < 7 THEN "NotEnoughAccountKeys"
      ELSE IF ~tinfo.ok THEN tinfo.err
      ELSE "Ok"

\* cancel_checks reading the record at line 249 with unpack_unchecked, as
\* line 77 does, where the code calls unpack
cancel_checks_unchecked_read(st, now, a) ==
  LET un == UnpackUnchecked(st.esc)
      escrow_info == un.rec
      current_slot == now
      tinfo == UnpackToken(st, a.temp)
  IN  IF a.nacc < 1 THEN "NotEnoughAccountKeys"
      ELSE IF ~a.signer THEN "MissingRequiredSignature"
      ELSE IF a.nacc < 5 THEN "NotEnoughAccountKeys"
      ELSE IF ~a.owned \/ ~a.writable THEN "IllegalOwner"
      ELSE IF ~un.ok THEN un.err
      ELSE IF TimeConstraintRejects(current_slot, escrow_info.unlock_time)
        THEN "TimeConstraintWasNotSatisfied"
      ELSE IF escrow_info.temp_token_account_pubkey # a.temp THEN "InvalidAccountData"
      ELSE IF escrow_info.initializer_pubkey # a.main THEN "InvalidAccountData"
      ELSE IF escrow_info.initializer_token_to_receive_account_pubkey # a.recv
        THEN "InvalidAccountData"
      ELSE IF escrow_info.initializer_pubkey # a.caller THEN "InvalidAccountData"
      ELSE IF a.nacc < 7 THEN "NotEnoughAccountKeys"
      ELSE IF ~tinfo.ok THEN tinfo.err
      ELSE "Ok"

\* cancel_checks with the test of lines 245-247 made after the record is read
\* and the window tested
cancel_checks_owner_late(st, now, a) ==
  LET un == Unpack(st.esc)
      escrow_info == un.rec
      current_slot == now
      tinfo == UnpackToken(st, a.temp)
  IN  IF a.nacc < 1 THEN "NotEnoughAccountKeys"
      ELSE IF ~a.signer THEN "MissingRequiredSignature"
      ELSE IF a.nacc < 5 THEN "NotEnoughAccountKeys"
      ELSE IF ~un.ok THEN un.err
      ELSE IF TimeConstraintRejects(current_slot, escrow_info.unlock_time)
        THEN "TimeConstraintWasNotSatisfied"
      ELSE IF ~a.owned \/ ~a.writable THEN "IllegalOwner"
      ELSE IF escrow_info.temp_token_account_pubkey # a.temp THEN "InvalidAccountData"
      ELSE IF escrow_info.initializer_pubkey # a.main THEN "InvalidAccountData"
      ELSE IF escrow_info.initializer_token_to_receive_account_pubkey # a.recv
        THEN "InvalidAccountData"
      ELSE IF escrow_info.initializer_pubkey # a.caller THEN "InvalidAccountData"
      ELSE IF a.nacc < 7 THEN "NotEnoughAccountKeys"
      ELSE IF ~tinfo.ok THEN tinfo.err
      ELSE "Ok"

\* process_cancel, lines 233-274: the checks made before the transfer.  The
\* names temp_token_account and initializers_token_to_receive_account of lines
\* 255 and 263 are read as the accounts bound at lines 240 and 242
\* (pda_token_account and initializer_sent_token_account), the accounts of
\* those roles in the list.
cancel_checks(st, now, a) ==
  LET un == Unpack(st.esc)
      escrow_info == un.rec
      current_slot == now
      tinfo == UnpackToken(st, a.temp)
  IN  IF a.nacc < 1 THEN "NotEnoughAccountKeys"
      ELSE IF ~a.signer THEN "MissingRequiredSignature"
      ELSE IF a.nacc < 5 THEN "NotEnoughAccountKeys"
      ELSE IF ~a.owned \/ ~a.writable THEN "IllegalOwner"
      ELSE IF ~un.ok THEN un.err
      ELSE IF TimeConstraintRejects(current_slot, escrow_info.unlock_time)
        THEN "TimeConstraintWasNotSatisfied"
      ELSE IF escrow_info.temp_token_account_pubkey # a.temp THEN "InvalidAccountData"
      ELSE IF escrow_info.initializer_pubkey # a.main THEN "InvalidAccountData"
      ELSE IF escrow_info.initializer_token_to_receive_account_pubkey # a.recv
        THEN "InvalidAccountData"
      ELSE IF escrow_info.initializer_pubkey # a.caller THEN "InvalidAccountData"
      ELSE IF a.nacc < 7 THEN "NotEnoughAccountKeys"
      ELSE IF ~tinfo.ok THEN tinfo.err
      ELSE "Ok"

\* process_cancel, lines 276-326: the two Token Ledger calls and the sweep
cancel_legs(st, a) ==
  LET tinfo == UnpackToken(st, a.temp)
      leg1 == Transfer(st, a.temp, a.recv, PDA, TRUE, tinfo.amount)
      leg2 == CloseAccount(leg1.st, a.temp, a.main, PDA, TRUE)
      sum == CheckedAdd(leg2.st.lam[a.main], leg2.st.esc.lamports)
  IN  IF ~leg1.ok THEN R(leg1.err, 1, leg1.st)
      ELSE IF ~leg2.ok THEN R(leg2.err, 2, leg2.st)
      ELSE IF ~sum.ok THEN R("AmountOverflow", 2, leg2.st)
      ELSE R("Ok", 2, CloseEscrow(leg2.st, a.main, sum.val))

\* Processor::process_cancel
process_cancel(st, now, a) ==
  LET chk == cancel_checks(st, now, a)
  IN  IF chk # "Ok" THEN R(chk, 0, st) ELSE cancel_legs(st, a)

\* process_reset_timelock without the comparison of the caller with the
\* stored initializer
process_reset_timelock_any_signer(st, now, a) ==
  LET un == Unpack(st.esc)
  IN  IF a.nacc < 1 THEN R("NotEnoughAccountKeys", 0, st)
      ELSE IF ~a.signer THEN R("MissingRequiredSignature", 0, st)
      ELSE IF a.nacc < 2 THEN R("NotEnoughAccountKeys", 0, st)
      ELSE IF ~un.ok THEN R(un.err, 0, st)
      ELSE R("Ok", 0, [st EXCEPT !.esc.data.unlock_time = now + LOCK_DURATION])

\* Processor::process_reset_timelock: dispatched at processor.rs 41, its body is
\* not in the source tree; after the specification's ResetTimeLock
process_reset_timelock(st, now, a) ==
  LET un == Unpack(st.esc)
  IN  IF a.nacc < 1 THEN R("NotEnoughAccountKeys", 0, st)
      ELSE IF ~a.signer THEN R("MissingRequiredSignature", 0, st)
      ELSE IF a.nacc < 2 THEN R("NotEnoughAccountKeys", 0, st)
      ELSE IF ~un.ok THEN R(un.err, 0, st)
      ELSE IF un.rec.initializer_pubkey # a.caller THEN R("InvalidAccountData", 0, st)
      ELSE R("Ok", 0, [st EXCEPT !.esc.data.unlock_time = now + LOCK_DURATION])

(***************************************************************************)
(* Instruction codec (instruction.rs) and the dispatcher (processor.rs)     *)
(***************************************************************************)
\* values of a byte of instruction data
Bytes == 0 .. ByteBase - 1
\* u64::MAX, the largest amount AMOUNT_BYTES bytes hold
U64Max == ByteBase ^ AMOUNT_BYTES - 1

\* EscrowInstruction values
InitEscrowIx(amount) == [tag |-> "InitEscrow", amount |-> amount]
ExchangeIx(amount) == [tag |-> "Exchange", amount |-> amount]
ResetTimeLockIx == [tag |-> "ResetTimeLock"]
CancelIx == [tag |-> "Cancel"]
NoIx == [tag |-> "none"]

\* Result<EscrowInstruction, ProgramError>
IxOk(i) == [ok |-> TRUE, err |-> "Ok", ins |-> i]
IxErr(e) == [ok |-> FALSE, err |-> e, ins |-> NoIx]

\* u64::to_be_bytes where line 87 / 91 calls to_le_bytes
ToBeBytes(n) ==
  [i \in 1 .. AMOUNT_BYTES |-> (n \div ByteBase ^ (AMOUNT_BYTES - i)) % ByteBase]

\* u64::to_le_bytes: least significant byte first
ToLeBytes(n) ==
  [i \in 1 .. AMOUNT_BYTES |-> (n \div ByteBase ^ (i - 1)) % ByteBase]

\* u64::from_le_bytes
RECURSIVE FromLeBytes(_)
FromLeBytes(bytes) ==
  IF bytes = <<>> THEN 0 ELSE Head(bytes) + ByteBase * FromLeBytes(Tail(bytes))

\* unpack_amount with a short slice padded with zero bytes instead of refused
unpack_amount_padded(input) ==
  LET n == IF Len(input) < AMOUNT_BYTES THEN Len(input) ELSE AMOUNT_BYTES
  IN  [ok |-> TRUE, err |-> "Ok", amount |-> FromLeBytes(SubSeq(input, 1, n))]

\* EscrowInstruction::unpack_amount: the first AMOUNT_BYTES bytes, little endian
unpack_amount(input) ==
  IF Len(input) < AMOUNT_BYTES
    THEN [ok |-> FALSE, err |-> "InvalidInstruction", amount |-> 0]
    ELSE [ok |-> TRUE, err |-> "Ok",
          amount |-> FromLeBytes(SubSeq(input, 1, AMOUNT_BYTES))]

\* EscrowInstruction::unpack
unpack(input) ==
  IF input = <<>> THEN IxErr("InvalidInstruction")
  ELSE LET tag == Head(input)
           rest == Tail(input)
           amount == unpack_amount(rest)
       IN  IF tag = 0
             THEN IF amount.ok THEN IxOk(InitEscrowIx(amount.amount)) ELSE IxErr(amount.err)
           ELSE IF tag = 1
             THEN IF amount.ok THEN IxOk(ExchangeIx(amount.amount)) ELSE IxErr(amount.err)
           ELSE IF tag = 2 THEN IxOk(ResetTimeLockIx)
           ELSE IF tag = 3 THEN IxOk(CancelIx)
           ELSE IxErr("InvalidInstruction")

\* EscrowInstruction::pack
pack(self) ==
  IF self.tag = "InitEscrow" THEN <<0>> \o ToLeBytes(self.amount)
  ELSE IF self.tag = "Exchange" THEN <<1>> \o ToLeBytes(self.amount)
  ELSE IF self.tag = "ResetTimeLock" THEN <<2>>
  ELSE <<3>>

\* Processor::process: decode the instruction data, then run the handler
process(st, now, instruction_data, a) ==
  LET instruction == unpack(instruction_data)
  IN  IF ~instruction.ok THEN R(instruction.err, 0, st)
      ELSE IF instruction.ins.tag = "InitEscrow"
        THEN process_init_escrow(st, now, a, instruction.ins.amount)
      ELSE IF instruction.ins.tag = "Exchange"
        THEN process_exchange(st, a, instruction.ins.amount)
      ELSE IF instruction.ins.tag = "ResetTimeLock"
        THEN process_reset_timelock(st, now, a)
      ELSE process_cancel(st, now, a)

(***************************************************************************)
(* The accounts and data callers supply                                     *)
(***************************************************************************)
Args(caller, signer, temp, main, recv, tsend, trecv, owned, writable, nacc, amount) ==
  [caller |-> caller, signer |-> signer, temp |-> temp, main |-> main,
   recv |-> recv, tsend |-> tsend, trecv |-> trecv, owned |-> owned,
   writable |-> writable, nacc |-> nacc, amount |-> amount]

Amounts == 0 .. MaxAmount + 1

\* InitEscrow: accounts 0-5 of instruction.rs 13-18; every list of a signing
\* caller, and one list per caller that lacks the signature
InitArgs ==
  { Args(c, TRUE, t, NoKey, r, NoKey, NoKey, TRUE, TRUE, n, m) :
      c \in Wallets, t \in {"tmpX", "bobX"},
      r \in {"aliceY", "bobY", "alice"}, n \in {5, 6}, m \in Amounts }
  \cup { Args(c, FALSE, "tmpX", NoKey, "aliceY", NoKey, NoKey, TRUE, TRUE, 6, MaxAmount) :
      c \in Wallets }

\* Exchange: accounts 0-8 of instruction.rs 28-36; bob is the taker
ExchangeArgs ==
  { Args("bob", TRUE, t, mn, r, "bobY", tr, TRUE, TRUE, n, m) :
      t \in {"tmpX", "bobX"}, mn \in Wallets,
      r \in {"aliceY", "bobY"}, tr \in {"bobX", "bob"}, n \in {7, 8, 9},
      m \in Amounts }
  \cup { Args("bob", FALSE, "tmpX", "alice", "aliceY", "bobY", "bobX", TRUE, TRUE, 9, m) :
      m \in Amounts }

\* ResetTimeLock: accounts 0-1 of instruction.rs 42-43
ResetArgs ==
  { Args(c, s, NoKey, NoKey, NoKey, NoKey, NoKey, TRUE, TRUE, 2, 0) :
      c \in Wallets, s \in BOOLEAN }

\* an empty account list
NoAccounts ==
  Args(NoKey, FALSE, NoKey, NoKey, NoKey, NoKey, NoKey, FALSE, FALSE, 0, 0)

\* escrow_account as Cancel is handed it: <<owned by the program, writable, accounts>>
CancelEscrowAccount ==
  {<<TRUE, TRUE, 7>>, <<TRUE, TRUE, 6>>, <<FALSE, TRUE, 7>>, <<TRUE, FALSE, 7>>}

\* Cancel: accounts 0-6 of instruction.rs 46-51 and processor.rs 234-272
CancelArgs ==
  { Args(c, TRUE, t, mn, r, NoKey, NoKey, e[1], e[2], e[3], 0) :
      c \in Wallets, t \in {"tmpX", "bobX"}, mn \in Wallets,
      r \in {"aliceY", "bobY"}, e \in CancelEscrowAccount }
  \cup { Args(c, FALSE, "tmpX", "alice", "aliceY", NoKey, NoKey, TRUE, TRUE, 7, 0) :
      c \in Wallets }

\* a buffer of n bytes, all of value f
Fill(n, f) == [i \in 1 .. n |-> f]

\* instruction data as the runtime may hand it to the program: empty, or any
\* first byte followed by 0 .. AMOUNT_BYTES + 1 bytes
InstructionData ==
  {<<>>} \cup
  { <<t>> \o Fill(n, f) :
      t \in Bytes, n \in 0 .. AMOUNT_BYTES + 1, f \in {0, ByteBase - 1} }

\* the amounts a client packs: the small ones, the edges of every byte
\* position, and the largest
AmountSamples ==
  (0 .. ByteBase * ByteBase)
  \cup { ByteBase ^ k - 1 : k \in 1 .. AMOUNT_BYTES }
  \cup { ByteBase ^ k : k \in 1 .. AMOUNT_BYTES - 1 }
  \cup { ByteBase ^ k + 1 : k \in 1 .. AMOUNT_BYTES - 1 }
  \cup { U64Max - 1, U64Max }

\* the instructions a client builds (instruction.rs 110-170)
Ixs ==
  { InitEscrowIx(n) : n \in AmountSamples }
  \cup { ExchangeIx(n) : n \in AmountSamples }
  \cup { ResetTimeLockIx, CancelIx }

(***************************************************************************)
(* State machine                                                            *)
(***************************************************************************)
Chain == [esc |-> escrow, tok |-> tokens, lam |-> lamports]

Invocation(op, r) == [op |-> op, res |-> r.res, cpis |-> r.cpis]

\* no instruction has been built
NotReceived == [ok |-> FALSE, err |-> "none", ins |-> NoIx]

CodecIdle ==
  /\ sent = NoIx
  /\ wire = <<>>
  /\ received = NotReceived
  /\ stage = "idle"

\* the accounts before the first transaction
Accounts0 ==
  /\ slot = 0
  /\ \E l \in {RentExemptMin - 1, RentExemptMin} :
       escrow = [lamports |-> l, empty |-> FALSE, data |-> ZeroEscrow]
  /\ tokens =
       [t \in TokenAccts |->
          [owner |-> IF t \in {"tmpX", "aliceY"} THEN "alice" ELSE "bob",
           amount |-> IF t \in {"tmpX", "bobY"} THEN MaxAmount ELSE 0,
           lamports |-> 1,
           open |-> TRUE]]
  /\ \E l \in {0, LamportMax - 1} : lamports = [w \in Wallets |-> IF w = "alice" THEN l ELSE 0]
  /\ last = [op |-> "none", res |-> "Ok", cpis |-> 0]

Init == Accounts0 /\ CodecIdle

\* Process keeping the account changes of an Err as well
ProcessKeepsPartial(op, r) ==
  /\ last' = Invocation(op, r)
  /\ escrow' = r.st.esc
  /\ tokens' = r.st.tok
  /\ lamports' = r.st.lam
  /\ UNCHANGED <<slot, codec_vars>>

\* Processor::process: the handler's result goes back to the runtime, which
\* keeps the account changes of an Ok and drops those of an Err
Process(op, r) ==
  /\ last' = Invocation(op, r)
  /\ IF r.res = "Ok"
       THEN /\ escrow' = r.st.esc
            /\ tokens' = r.st.tok
            /\ lamports' = r.st.lam
       ELSE UNCHANGED <<escrow, tokens, lamports>>
  /\ UNCHANGED <<slot, codec_vars>>

InitEscrow ==
  \E a \in InitArgs :
    Process("InitEscrow", process(Chain, slot, pack(InitEscrowIx(a.amount)), a))

Exchange ==
  \E a \in ExchangeArgs :
    Process("Exchange", process(Chain, slot, pack(ExchangeIx(a.amount)), a))

ResetTimeLock ==
  \E a \in ResetArgs :
    Process("ResetTimeLock", process(Chain, slot, pack(ResetTimeLockIx), a))

Cancel ==
  \E a \in CancelArgs :
    Process("Cancel", process(Chain, slot, pack(CancelIx), a))

\* the cluster clock moves on between transactions
Tick ==
  /\ \E s \in Slots : s > slot /\ slot' = s
  /\ last' = [op |-> "Tick", res |-> "Ok", cpis |-> 0]
  /\ UNCHANGED <<escrow, tokens, lamports, codec_vars>>

\* processor.rs 28: instruction data that unpack refuses, whatever the accounts
Rejected ==
  \E b \in InstructionData, a \in {NoAccounts} :
    /\ ~unpack(b).ok
    /\ Process("Rejected", process(Chain, slot, b, a))

Next == InitEscrow \/ Exchange \/ ResetTimeLock \/ Cancel \/ Rejected \/ Tick

Spec == Init /\ [][Next]_vars

(***************************************************************************)
(* The codec on its own: a client builds an instruction and packs it, or    *)
(* the runtime hands over arbitrary instruction data; the program unpacks   *)
(* what arrives.                                                            *)
(***************************************************************************)
CodecInit ==
  /\ Accounts0
  /\ received = NotReceived
  /\ \/ sent \in Ixs /\ wire = <<>> /\ stage = "built"
     \/ sent = NoIx /\ wire \in InstructionData /\ stage = "packed"

ClientPacks ==
  /\ stage = "built"
  /\ wire' = pack(sent)
  /\ stage' = "packed"
  /\ UNCHANGED <<slot, escrow, tokens, lamports, last, sent, received>>

ProgramUnpacks ==
  /\ stage = "packed"
  /\ received' = unpack(wire)
  /\ stage' = "unpacked"
  /\ UNCHANGED <<slot, escrow, tokens, lamports, last, sent, wire>>

CodecNext == ClientPacks \/ ProgramUnpacks

CodecSpec == CodecInit /\ [][CodecNext]_vars

(***************************************************************************)
(* Vocabulary of the properties                                             *)
(***************************************************************************)
Instructions == {"InitEscrow", "Exchange", "ResetTimeLock", "Cancel"}

\* the lifecycle state of the record account
Phase ==
  IF escrow.empty THEN "Closed"
  ELSE IF escrow.data.is_initialized THEN "Open"
  ELSE "Empty"

Record == escrow.data

InitResult(a) == process_init_escrow(Chain, slot, a, a.amount)
ExchangeResult(a) == process_exchange(Chain, a, a.amount)
ResetResult(a) == process_reset_timelock(Chain, slot, a)
CancelResult(a) == process_cancel(Chain, slot, a)

\* the accounts of a match the identities stored in the record
Matching(a) ==
  /\ a.temp = Record.temp_token_account_pubkey
  /\ a.main = Record.initializer_pubkey
  /\ a.recv = Record.initializer_token_to_receive_account_pubkey

(***************************************************************************)
(* C1  The record only moves Empty -> Open -> Closed: only a successful     *)
(* InitEscrow opens it, a successful Exchange or Cancel starts from Open    *)
(* and ends in Closed (so at most one of them ever succeeds), and on a      *)
(* Closed record no InitEscrow, ResetTimeLock, Exchange or Cancel succeeds. *)
(***************************************************************************)
C1_Step ==
  /\ Phase = "Empty" => Phase' \in {"Empty", "Open"}
  /\ Phase = "Open" => Phase' \in {"Open", "Closed"}
  /\ Phase = "Closed" => Phase' = "Closed"
  /\ Phase # Phase' => last'.res = "Ok"
  /\ (Phase = "Empty" /\ Phase' = "Open") => last'.op = "InitEscrow"
  /\ (last'.op = "InitEscrow" /\ last'.res = "Ok") => (Phase = "Empty" /\ Phase' = "Open")
  /\ (last'.op \in {"Exchange", "Cancel"} /\ last'.res = "Ok")
       => (Phase = "Open" /\ Phase' = "Closed")
  /\ (Phase = "Closed" /\ last'.op \in Instructions) => last'.res # "Ok"

C1_Lifecycle == [][C1_Step]_vars

\* a Closed record has just refused another InitEscrow
C1_Witness ==
  Phase = "Closed" /\ last.op = "InitEscrow" /\ last.res # "Ok"

\* an Exchange or a Cancel has succeeded on the record, now or earlier
C2_AfterClose ==
  \/ last.op \in {"Exchange", "Cancel"} /\ last.res = "Ok"
  \/ Phase = "Closed"

(***************************************************************************)
(* C2  (as claimed) After a successful Exchange or Cancel the initialized   *)
(* flag of the record reads false,                                          *)
(* the balance is zero and every Exchange, ResetTimeLock and Cancel fails   *)
(* with UninitializedAccount.                                               *)
(***************************************************************************)
C2_AsClaimed ==
  C2_AfterClose =>
    /\ ~Unpack(escrow).ok
    /\ escrow.lamports = 0
    /\ \A a \in ExchangeArgs : ExchangeResult(a).res = "UninitializedAccount"
    /\ \A a \in ResetArgs : ResetResult(a).res = "UninitializedAccount"
    /\ \A a \in CancelArgs : CancelResult(a).res = "UninitializedAccount"

\* the errors of the checks that precede the read of the record
C2_EarlierErrors ==
  {"NotEnoughAccountKeys", "MissingRequiredSignature", "InvalidAccountData",
   "ExpectedAmountMismatch", "IllegalOwner"}

(***************************************************************************)
(* C2  (amended) After a successful Exchange or Cancel the initialized flag *)
(* of the record reads false, the                                           *)
(* balance is zero and every Exchange, ResetTimeLock and Cancel fails: with *)
(* UninitializedAccount when the invocation gets as far as reading the      *)
(* record, and with the error of an earlier check otherwise.                *)
(***************************************************************************)
C2_ClosedRejects ==
  C2_AfterClose =>
    /\ ~Unpack(escrow).ok
    /\ escrow.lamports = 0
    /\ \A a \in ExchangeArgs :
         LET r == ExchangeResult(a)
             reached == /\ a.signer
                        /\ UnpackToken(Chain, a.temp).ok
                        /\ a.amount = tokens[a.temp].amount
                        /\ a.nacc >= 7
         IN  /\ r.res \in C2_EarlierErrors \cup {"UninitializedAccount"}
             /\ reached => r.res = "UninitializedAccount"
             /\ r.res = "UninitializedAccount" => reached
    /\ \A a \in ResetArgs :
         LET r == ResetResult(a)
         IN  /\ r.res \in C2_EarlierErrors \cup {"UninitializedAccount"}
             /\ (a.signer /\ a.nacc >= 2) <=> r.res = "UninitializedAccount"
    /\ \A a \in CancelArgs :
         LET r == CancelResult(a)
         IN  /\ r.res \in C2_EarlierErrors \cup {"UninitializedAccount"}
             /\ (a.signer /\ a.nacc >= 5 /\ a.owned /\ a.writable)
                  <=> r.res = "UninitializedAccount"

\* an Exchange that reached the read of a Closed record
C2_Witness ==
  /\ Phase = "Closed"
  /\ last.op \in {"Exchange", "Cancel"}
  /\ last.res = "UninitializedAccount"

(***************************************************************************)
(* C3  (as claimed) On an Open record Exchange(amount) succeeds if and only *)
(* if amount equals the live balance of the custody slot, and fails with    *)
(* ExpectedAmountMismatch, changing nothing, whenever it differs.           *)
(***************************************************************************)
C3_AsClaimed ==
  Phase = "Open" =>
    \A a \in ExchangeArgs :
      LET r == ExchangeResult(a)
          balance == tokens[Record.temp_token_account_pubkey].amount
      IN  /\ r.res = "Ok" <=> a.amount = balance
          /\ a.amount # balance => r.res = "ExpectedAmountMismatch"

(***************************************************************************)
(* C3  (amended) On an Open record an Exchange(amount) succeeds only if     *)
(* amount equals the live balance of the custody slot; an Exchange by a     *)
(* signer whose amount differs from the live balance of the custody account *)
(* it supplies fails with ExpectedAmountMismatch; and a failed Exchange     *)
(* leaves the record Open and the custody balance unchanged.                *)
(***************************************************************************)
C3_State ==
  Phase = "Open" =>
    \A a \in ExchangeArgs :
      LET r == ExchangeResult(a)
          custody == Record.temp_token_account_pubkey
      IN  /\ r.res = "Ok" => (a.temp = custody /\ a.amount = tokens[custody].amount)
          /\ (a.signer /\ a.nacc >= 4 /\ UnpackToken(Chain, a.temp).ok
                /\ a.amount # tokens[a.temp].amount)
               => r.res = "ExpectedAmountMismatch"
          /\ r.res = "ExpectedAmountMismatch"
               => (a.signer /\ a.amount # tokens[a.temp].amount)

C3_Step ==
  (Phase = "Open" /\ last'.op = "Exchange" /\ last'.res # "Ok")
    => (escrow' = escrow /\ tokens' = tokens)

C3_ExactAmount == [](C3_State) /\ [][C3_Step]_vars

\* an Exchange one unit off the custody balance was refused and the record is Open
C3_Witness ==
  /\ Phase = "Open"
  /\ last.op = "Exchange"
  /\ last.res = "ExpectedAmountMismatch"
  /\ tokens[Record.temp_token_account_pubkey].amount = MaxAmount

(***************************************************************************)
(* Effects of a successful Exchange with accounts a, from the current state *)
(* to the state st2: the initializer's receiving account gains              *)
(* expected_amount out of the taker's sending account, the taker's          *)
(* receiving account gains the whole custody balance, the custody slot is   *)
(* closed and its lamports, with the record's, go to the initializer, the   *)
(* record is Closed, and nothing else moves.                                *)
(***************************************************************************)
ExchangeEffects(a, st2) ==
  LET custody == Record.temp_token_account_pubkey
      initializer == Record.initializer_pubkey
      deposit == tokens[custody].amount
  IN  /\ Matching(a)
      /\ a.trecv \in TokenAccts
      /\ st2.tok[a.recv].amount = tokens[a.recv].amount + Record.expected_amount
      /\ st2.tok[a.tsend].amount = tokens[a.tsend].amount - Record.expected_amount
      /\ st2.tok[a.trecv].amount = tokens[a.trecv].amount + deposit
      /\ ~st2.tok[custody].open
      /\ st2.tok[custody].amount = 0
      /\ st2.lam[initializer] =
           lamports[initializer] + tokens[custody].lamports + escrow.lamports
      /\ st2.esc.empty
      /\ st2.esc.lamports = 0
      /\ \A t \in TokenAccts \ {a.recv, a.tsend, a.trecv, custody} :
           st2.tok[t] = tokens[t]
      /\ \A w \in Wallets \ {initializer} : st2.lam[w] = lamports[w]

\* the four token accounts of an Exchange are four different accounts
DistinctTokenAccounts(a) ==
  Cardinality({a.tsend, a.trecv, a.recv, a.temp}) = 4

\* the step is a successful Exchange with accounts a
ExchangeStep(a) ==
  /\ ExchangeResult(a).res = "Ok"
  /\ ExchangeResult(a).st = [esc |-> escrow', tok |-> tokens', lam |-> lamports']

(***************************************************************************)
(* C4  (as claimed) Every successful Exchange on an Open record has exactly *)
(* the effects of ExchangeEffects.                                          *)
(***************************************************************************)
C4_AsClaimed ==
  [][(last'.op = "Exchange" /\ last'.res = "Ok")
       => \E a \in ExchangeArgs : ExchangeStep(a) /\ ExchangeEffects(a, ExchangeResult(a).st)]_vars

C4_State ==
  Phase = "Open" =>
    \A a \in ExchangeArgs :
      (ExchangeResult(a).res = "Ok" /\ DistinctTokenAccounts(a))
        => ExchangeEffects(a, ExchangeResult(a).st)

C4_Step ==
  (last'.op = "Exchange" /\ last'.res = "Ok")
    => (Phase = "Open" /\ \E a \in ExchangeArgs : ExchangeStep(a))

(***************************************************************************)
(* C4  (amended) A successful Exchange on an Open record whose four token   *)
(* accounts (taker's sending, taker's receiving, initializer's receiving,   *)
(* custody slot) are four different accounts has exactly the effects of     *)
(* ExchangeEffects, and every successful Exchange step is the committed     *)
(* result of process_exchange on an Open record.                            *)
(***************************************************************************)
C4_ExchangeEffects == [](C4_State) /\ [][C4_Step]_vars

\* alice's deposit went to bob and bob's payment of MaxAmount went to alice
C4_Witness ==
  /\ last.op = "Exchange"
  /\ last.res = "Ok"
  /\ MaxAmount > 0
  /\ tokens["aliceY"].amount = MaxAmount
  /\ tokens["bobX"].amount = MaxAmount
  /\ ~tokens["tmpX"].open

(***************************************************************************)
(* C5  (as claimed) InitEscrow on an initialized record always fails with   *)
(* AccountAlreadyInitialized, for any caller and any amount.                *)
(***************************************************************************)
C5_AsClaimed ==
  Phase = "Open" =>
    \A a \in InitArgs : InitResult(a).res = "AccountAlreadyInitialized"

C5_State ==
  Phase = "Open" =>
    \A a \in InitArgs :
      LET r == InitResult(a)
      IN  /\ r.res \in {"MissingRequiredSignature", "IncorrectProgramId",
                        "AccountAlreadyInitialized"}
          /\ (a.signer /\ OwnedByTokenProgram(a.recv) /\ a.nacc >= 5)
               <=> r.res = "AccountAlreadyInitialized"
          /\ ~a.signer => r.res = "MissingRequiredSignature"

C5_Step ==
  (Phase = "Open" /\ last'.op = "InitEscrow")
    => (last'.res # "Ok" /\ escrow' = escrow)

(***************************************************************************)
(* C5  (amended) InitEscrow on an initialized record always fails and       *)
(* leaves every field of the record unchanged, for any caller and any       *)
(* amount; it fails with AccountAlreadyInitialized when the caller signed   *)
(* and the receiving account is owned by the Token Ledger, with             *)
(* MissingRequiredSignature when the caller did not sign, and otherwise     *)
(* with IncorrectProgramId.                                                 *)
(***************************************************************************)
C5_NoReinit == [](C5_State) /\ [][C5_Step]_vars

\* a second InitEscrow was refused on an Open record
C5_Witness ==
  /\ Phase = "Open"
  /\ last.op = "InitEscrow"
  /\ last.res = "AccountAlreadyInitialized"

\* a is the list of the signing initializer with the record's own accounts
InitializerCancels(a) ==
  /\ a.signer
  /\ a.caller = Record.initializer_pubkey
  /\ Matching(a)
  /\ a.owned
  /\ a.writable
  /\ a.nacc >= 7

(***************************************************************************)
(* C6  On an Open record, while the slot is at most unlock_time, the Cancel *)
(* of the signing initializer with matching accounts fails with             *)
(* TimeConstraintWasNotSatisfied.                                           *)
(***************************************************************************)
C6_AsClaimed ==
  (Phase = "Open" /\ slot <= Record.unlock_time) =>
    \A a \in CancelArgs :
      InitializerCancels(a) => CancelResult(a).res = "TimeConstraintWasNotSatisfied"

(***************************************************************************)
(* C7  On an Open record, at a slot strictly after unlock_time and before   *)
(* unlock_time + GRACE, the Cancel of the signing initializer with matching *)
(* accounts succeeds: the custody balance goes back to the initializer's    *)
(* token account, the custody slot is closed and the record is Closed.      *)
(***************************************************************************)
C7_AsClaimed ==
  (Phase = "Open" /\ slot > Record.unlock_time /\ slot < Record.unlock_time + GRACE) =>
    \A a \in CancelArgs :
      LET r == CancelResult(a)
          custody == Record.temp_token_account_pubkey
      IN  InitializerCancels(a) =>
            /\ r.res = "Ok"
            /\ r.st.tok[a.recv].amount = tokens[a.recv].amount + tokens[custody].amount
            /\ ~r.st.tok[custody].open
            /\ r.st.esc.empty

(***************************************************************************)
(* C8  (as claimed) On an Open record a Cancel whose first account did not  *)
(* sign fails with MissingRequiredSignature and a Cancel signed by a key    *)
(* other than the stored initializer fails with InvalidAccountData, at      *)
(* every slot.                                                              *)
(***************************************************************************)
C8_AsClaimed ==
  Phase = "Open" =>
    \A a \in CancelArgs :
      LET r == CancelResult(a)
      IN  /\ ~a.signer => r.res = "MissingRequiredSignature"
          /\ (a.signer /\ a.caller # Record.initializer_pubkey)
               => r.res = "InvalidAccountData"

C8_State ==
  Phase = "Open" =>
    \A a \in CancelArgs :
      LET r == CancelResult(a)
          stranger == a.signer /\ a.caller # Record.initializer_pubkey
      IN  /\ (~a.signer \/ stranger) => r.res # "Ok"
          /\ ~a.signer => r.res = "MissingRequiredSignature"
          /\ stranger => r.res \in {"IllegalOwner", "TimeConstraintWasNotSatisfied",
                                    "InvalidAccountData"}
          /\ (stranger /\ (~a.owned \/ ~a.writable)) => r.res = "IllegalOwner"
          /\ (stranger /\ a.owned /\ a.writable
                /\ TimeConstraintRejects(slot, Record.unlock_time))
               => r.res = "TimeConstraintWasNotSatisfied"
          /\ (stranger /\ a.owned /\ a.writable
                /\ ~TimeConstraintRejects(slot, Record.unlock_time))
               => r.res = "InvalidAccountData"

C8_Step ==
  (Phase = "Open" /\ last'.op = "Cancel" /\ last'.res # "Ok")
    => (escrow' = escrow /\ tokens' = tokens)

(***************************************************************************)
(* C8  (amended) Cancel never succeeds for a caller other than the stored   *)
(* initializer.  Without the signature it fails with                        *)
(* MissingRequiredSignature.  Signed by another key it fails with           *)
(* IllegalOwner when the record account is not owned by the program or not  *)
(* writable, else with TimeConstraintWasNotSatisfied when the window test   *)
(* of line 251 rejects the slot, and else with InvalidAccountData.  A       *)
(* failed Cancel leaves the record Open and the deposit in custody.         *)
(***************************************************************************)
C8_OnlyInitializer == [](C8_State) /\ [][C8_Step]_vars

\* a Cancel was refused with InvalidAccountData where a signer other than the
\* initializer gets that answer
C8_Witness ==
  /\ Phase = "Open"
  /\ last.op = "Cancel"
  /\ last.res = "InvalidAccountData"
  /\ \E a \in CancelArgs :
       /\ a.signer
       /\ a.caller # Record.initializer_pubkey
       /\ Matching(a)
       /\ CancelResult(a).res = "InvalidAccountData"

(***************************************************************************)
(* C9  An InitEscrow, ResetTimeLock, Exchange or Cancel that ends in an     *)
(* error leaves the record, every token account and every lamport balance   *)
(* as they were: a refused authority change leaves the record               *)
(* uninitialized, a failed later leg of Exchange leaves the payment leg     *)
(* unapplied.                                                               *)
(***************************************************************************)
C9_Step ==
  (last'.op \in Instructions /\ last'.res # "Ok")
    => (escrow' = escrow /\ tokens' = tokens /\ lamports' = lamports)

C10_AsClaimed ==
  (last.op \in {"InitEscrow", "Exchange", "Cancel"}
     /\ last.res \notin LedgerErrors \cup {"Ok"})
    => last.cpis = 0

(***************************************************************************)
(* C11  After a successful InitEscrow(amount) at slot t the record that is  *)
(* persisted is initialized, names the caller as initializer, the supplied  *)
(* deposit account as custody slot and the supplied receiving account as    *)
(* payout, carries expected_amount = amount, and unlock_time = t + 100.     *)
(***************************************************************************)
C11_AsClaimed ==
  \A a \in InitArgs :
    LET r == InitResult(a)
        rec == r.st.esc.data
    IN  r.res = "Ok" =>
          /\ rec.is_initialized
          /\ rec.initializer_pubkey = a.caller
          /\ rec.temp_token_account_pubkey = a.temp
          /\ rec.initializer_token_to_receive_account_pubkey = a.recv
          /\ rec.expected_amount = a.amount
          /\ rec.unlock_time = slot + LOCK_DURATION

(***************************************************************************)
(* C12  The expected_amount of an Open record is the amount of the          *)
(* InitEscrow that opened it: the InitEscrow that opens the record stores   *)
(* its own amount, and no step that leaves the record Open (a               *)
(* ResetTimeLock, a failed Exchange, a failed Cancel, a repeated            *)
(* InitEscrow) changes it.                                                  *)
(***************************************************************************)
C12_State ==
  \A a \in InitArgs :
    LET r == InitResult(a)
    IN  r.res = "Ok" => r.st.esc.data.expected_amount = a.amount

C12_Step ==
  /\ (Phase # "Open" /\ Phase' = "Open")
       => /\ last'.op = "InitEscrow"
          /\ \E a \in InitArgs :
               /\ InitResult(a).res = "Ok"
               /\ escrow' = InitResult(a).st.esc
               /\ Record'.expected_amount = a.amount
  /\ (Phase = "Open" /\ Phase' = "Open")
       => Record'.expected_amount = Record.expected_amount

C12_AmountFixed == [](C12_State) /\ [][C12_Step]_vars

\* a record opened for MaxAmount + 1 has refused an InitEscrow for another amount
C12_Witness ==
  /\ Phase = "Open"
  /\ Record.expected_amount = MaxAmount + 1
  /\ last.op = "InitEscrow"
  /\ last.res = "AccountAlreadyInitialized"

(***************************************************************************)
(* C13  While the record is Open the authority over its custody slot is the *)
(* program derived address PDA, never a wallet: an InitEscrow reports Ok    *)
(* only with the set_authority call issued and the slot handed to PDA, and  *)
(* only a successful Exchange or Cancel, through its calls signed for PDA,  *)
(* takes tokens out of the custody slot of an Open record, hands it to      *)
(* another authority or closes it.                                          *)
(***************************************************************************)
C13_State ==
  /\ PDA \notin Wallets
  /\ Phase = "Open" => tokens[Record.temp_token_account_pubkey].owner = PDA
  /\ \A a \in InitArgs :
       LET r == InitResult(a)
       IN  r.res = "Ok" => (r.cpis = 1 /\ r.st.tok[a.temp].owner = PDA)

C13_Step ==
  LET custody == Record.temp_token_account_pubkey
      out == \/ tokens'[custody].amount < tokens[custody].amount
             \/ tokens'[custody].owner # tokens[custody].owner
             \/ tokens'[custody].open # tokens[custody].open
  IN  (Phase = "Open" /\ out)
        => /\ last'.op \in {"Exchange", "Cancel"}
           /\ last'.res = "Ok"
           /\ last'.cpis >= 2

C13_CustodyAuthority == [](C13_State) /\ [][C13_Step]_vars

\* an InitEscrow has just handed a funded custody slot to PDA
C13_Witness ==
  /\ Phase = "Open"
  /\ last.op = "InitEscrow"
  /\ last.res = "Ok"
  /\ last.cpis = 1
  /\ tokens[Record.temp_token_account_pubkey].owner = PDA
  /\ tokens[Record.temp_token_account_pubkey].amount = MaxAmount
  /\ Record.initializer_pubkey \in Wallets

(***************************************************************************)
(* C14  ResetTimeLock on an Open record succeeds only for a signing caller  *)
(* whose key is the stored initializer; a successful ResetTimeLock leaves   *)
(* the record Open with unlock_time = slot + LOCK_DURATION and every other  *)
(* field of the record, every token account (the custody balance among      *)
(* them) and every lamport balance as they were; on a record that was       *)
(* never initialized the ResetTimeLock of a signer fails with               *)
(* UninitializedAccount.                                                    *)
(***************************************************************************)
C14_State ==
  \A a \in ResetArgs :
    LET r == ResetResult(a)
    IN  /\ (Phase = "Open" /\ r.res = "Ok")
             => (a.signer /\ a.caller = Record.initializer_pubkey)
        /\ r.res = "Ok"
             => /\ Phase = "Open"
                /\ r.st.esc.data = [Record EXCEPT !.unlock_time = slot + LOCK_DURATION]
                /\ r.st.esc.lamports = escrow.lamports
                /\ r.st.esc.empty = escrow.empty
                /\ r.st.tok = tokens
                /\ r.st.lam = lamports
                /\ r.cpis = 0
        /\ (Phase = "Empty" /\ a.signer) => r.res = "UninitializedAccount"
        /\ Phase = "Empty" => r.res # "Ok"

C14_Step ==
  (last'.op = "ResetTimeLock" /\ last'.res = "Ok")
    => /\ Phase = "Open"
       /\ Phase' = "Open"
       /\ Record' = [Record EXCEPT !.unlock_time = slot + LOCK_DURATION]
       /\ tokens' = tokens
       /\ lamports' = lamports

C14_ResetTimeLock == [](C14_State) /\ [][C14_Step]_vars

\* the initializer has reset the lock of a funded escrow at a slot after 0
C14_Witness ==
  /\ Phase = "Open"
  /\ last.op = "ResetTimeLock"
  /\ last.res = "Ok"
  /\ slot > 0
  /\ Record.unlock_time = slot + LOCK_DURATION
  /\ Record.expected_amount = MaxAmount
  /\ tokens[Record.temp_token_account_pubkey].amount = MaxAmount

\* the number the bytes b[i ..] stand for when the first is the least significant
RECURSIVE PlaceValue(_, _)
PlaceValue(b, i) ==
  IF i > Len(b) THEN 0 ELSE b[i] * ByteBase ^ (i - 1) + PlaceValue(b, i + 1)

\* the tag byte of each variant
TagByte(i) ==
  CASE i.tag = "InitEscrow" -> 0
    [] i.tag = "Exchange" -> 1
    [] i.tag = "ResetTimeLock" -> 2
    [] i.tag = "Cancel" -> 3

(***************************************************************************)
(* C15  For InitEscrow{amount}, Exchange{amount}, ResetTimeLock and Cancel, *)
(* and every amount from 0 to u64::MAX, unpack(pack(i)) = Ok(i); pack       *)
(* emits the tag byte 0 / 1 / 2 / 3, followed for the two amount variants   *)
(* by the AMOUNT_BYTES bytes of the amount, least significant first, and    *)
(* by nothing for the other two.                                            *)
(***************************************************************************)
C15_RoundTrip ==
  (sent # NoIx /\ stage \in {"packed", "unpacked"}) =>
    /\ wire # <<>>
    /\ wire[1] = TagByte(sent)
    /\ sent.tag \in {"InitEscrow", "Exchange"}
         => /\ Len(wire) = 1 + AMOUNT_BYTES
            /\ \A i \in 1 .. Len(wire) : wire[i] \in Bytes
            /\ PlaceValue(Tail(wire), 1) = sent.amount
            /\ wire[2] = sent.amount % ByteBase
    /\ sent.tag \in {"ResetTimeLock", "Cancel"} => Len(wire) = 1
    /\ stage = "unpacked" => received = IxOk(sent)

\* InitEscrow{u64::MAX - 1} has gone through pack and unpack
C15_Witness ==
  /\ stage = "unpacked"
  /\ sent = InitEscrowIx(U64Max - 1)
  /\ received.ok
  /\ received.ins.amount = U64Max - 1
  /\ wire[2] = ByteBase - 2
  /\ wire[1 + AMOUNT_BYTES] = ByteBase - 1

\* instruction data of the three shapes unpack is to refuse
Malformed(b) ==
  \/ b = <<>>
  \/ b[1] \notin {0, 1, 2, 3}
  \/ b[1] \in {0, 1} /\ Len(b) - 1 < AMOUNT_BYTES

\* account lists a handler accepts: those of a ResetTimeLock, of alice's
\* InitEscrow, of bob's Exchange and of the initializer's Cancel on the record
\* as it stands; and the empty list
AcceptableAccounts ==
  ResetArgs \cup
  { NoAccounts,
    Args("alice", TRUE, "tmpX", NoKey, "aliceY", NoKey, NoKey, TRUE, TRUE, 6, MaxAmount),
    Args("bob", TRUE, Record.temp_token_account_pubkey, Record.initializer_pubkey,
         Record.initializer_token_to_receive_account_pubkey, "bobY", "bobX",
         TRUE, TRUE, 9, MaxAmount),
    Args(Record.initializer_pubkey, TRUE, Record.temp_token_account_pubkey,
         Record.initializer_pubkey, Record.initializer_token_to_receive_account_pubkey,
         NoKey, NoKey, TRUE, TRUE, 7, 0) }

(***************************************************************************)
(* C16  unpack returns InvalidInstruction for the empty buffer, for every   *)
(* first byte other than 0, 1, 2, 3, and for tag 0 or 1 followed by fewer   *)
(* than AMOUNT_BYTES bytes; Processor::process returns that error for such  *)
(* data with no handler run: no Token Ledger call, no account changed,      *)
(* whatever the accounts and the state of the record.                       *)
(***************************************************************************)
C16_State ==
  \A b \in InstructionData :
    Malformed(b) =>
      /\ unpack(b) = IxErr("InvalidInstruction")
      /\ \A a \in AcceptableAccounts :
           process(Chain, slot, b, a) = R("InvalidInstruction", 0, Chain)

C16_Step ==
  last'.op = "Rejected"
    => /\ last'.res = "InvalidInstruction"
       /\ last'.cpis = 0
       /\ escrow' = escrow
       /\ tokens' = tokens
       /\ lamports' = lamports

C16_Rejected == [](C16_State) /\ [][C16_Step]_vars

\* an Open escrow with its deposit in custody has been sent malformed data
C16_Witness ==
  /\ Phase = "Open"
  /\ last.op = "Rejected"
  /\ last.res = "InvalidInstruction"
  /\ last.cpis = 0
  /\ slot > 0
  /\ tokens[Record.temp_token_account_pubkey].owner = PDA
  /\ tokens[Record.temp_token_account_pubkey].amount = MaxAmount

\* the accounts as they stand, with the record account holding l lamports
WithRecordLamports(l) == [Chain EXCEPT !.esc.lamports = l]

(***************************************************************************)
(* C17  InitEscrow returns, with the record unwritten and no Token Ledger   *)
(* call, MissingRequiredSignature when the caller did not sign, else        *)
(* IncorrectProgramId when the receiving account is not owned by the Token  *)
(* Ledger, else NotRentExempt when the record account's balance is below    *)
(* the rent exemption; each of the three is returned whether or not the     *)
(* record is already initialized.                                           *)
(***************************************************************************)
C17_InitRejections ==
  \A a \in InitArgs :
    \A l \in {escrow.lamports, RentExemptMin - 1} :
      LET st == WithRecordLamports(l)
          r == process_init_escrow(st, slot, a, a.amount)
          exempt == IsExempt(l, escrow.empty)
      IN  /\ ~a.signer => r = R("MissingRequiredSignature", 0, st)
          /\ (a.signer /\ ~OwnedByTokenProgram(a.recv))
               => r = R("IncorrectProgramId", 0, st)
          /\ (a.signer /\ OwnedByTokenProgram(a.recv) /\ ~exempt)
               => r = R("NotRentExempt", 0, st)
          /\ (a.signer /\ OwnedByTokenProgram(a.recv) /\ exempt /\ Phase = "Open")
               => r = R("AccountAlreadyInitialized", 0, st)

\* an initialized record has refused an InitEscrow for its receiving account
C17_Witness ==
  /\ Phase = "Open"
  /\ last.op = "InitEscrow"
  /\ last.res = "IncorrectProgramId"
  /\ last.cpis = 0

(***************************************************************************)
(* C18  (as claimed) On an Open record an Exchange whose custody account,   *)
(* initializer main account or initializer receiving account differs from   *)
(* the one stored in the record fails with InvalidAccountData, with no      *)
(* Token Ledger call issued.                                                *)
(***************************************************************************)
C18_AsClaimed ==
  Phase = "Open" =>
    \A a \in ExchangeArgs :
      LET r == ExchangeResult(a)
      IN  ~Matching(a) => (r.res = "InvalidAccountData" /\ r.cpis = 0)

C18_State ==
  Phase = "Open" =>
    \A a \in ExchangeArgs :
      LET r == ExchangeResult(a)
          custody == Record.temp_token_account_pubkey
          payout == Record.initializer_token_to_receive_account_pubkey
      IN  /\ ~Matching(a)
               => /\ r.cpis = 0
                  /\ r.st = Chain
                  /\ r.res =
                       IF ~a.signer THEN "MissingRequiredSignature"
                       ELSE IF ~IsOpenToken(Chain, a.temp) THEN "InvalidAccountData"
                       ELSE IF a.amount # tokens[a.temp].amount
                         THEN "ExpectedAmountMismatch"
                       ELSE "InvalidAccountData"
          /\ r.res = "Ok"
               => /\ Matching(a)
                  /\ ~r.st.tok[custody].open
                  /\ r.st.tok[custody].amount = 0
                  /\ payout # a.tsend
                       => r.st.tok[payout].amount
                            = tokens[payout].amount + Record.expected_amount

C18_Step ==
  (last'.op = "Exchange" /\ last'.res = "Ok")
    => /\ Phase = "Open"
       /\ ~tokens'[Record.temp_token_account_pubkey].open
       /\ \A t \in TokenAccts :
            tokens'[t].amount > tokens[t].amount
              => \/ t = Record.initializer_token_to_receive_account_pubkey
                 \/ tokens'[t].amount - tokens[t].amount
                      = tokens[Record.temp_token_account_pubkey].amount

(***************************************************************************)
(* C18  (amended) On an Open record an Exchange whose custody account,      *)
(* initializer main account or initializer receiving account differs from   *)
(* the one stored never succeeds and issues no Token Ledger call: it fails  *)
(* with MissingRequiredSignature when the taker did not sign, else with     *)
(* ExpectedAmountMismatch when the amount differs from the balance of the   *)
(* custody account supplied, and else with InvalidAccountData.  So a        *)
(* successful Exchange directs its payment to the stored payout account     *)
(* and empties and closes the stored custody slot.                          *)
(***************************************************************************)
C18_StoredIdentities == [](C18_State) /\ [][C18_Step]_vars

\* a signed Exchange naming another receiving account was refused
C18_Witness ==
  /\ Phase = "Open"
  /\ last.op = "Exchange"
  /\ last.res = "InvalidAccountData"
  /\ last.cpis = 0
  /\ \E a \in ExchangeArgs :
       /\ a.signer
       /\ a.temp = Record.temp_token_account_pubkey
       /\ a.main = Record.initializer_pubkey
       /\ a.recv # Record.initializer_token_to_receive_account_pubkey
       /\ a.amount = tokens[a.temp].amount
       /\ ExchangeResult(a).res = "InvalidAccountData"

(***************************************************************************)
(* C19  (as claimed) On a record that was never initialized every           *)
(* Exchange, ResetTimeLock and Cancel of a signer fails with                *)
(* UninitializedAccount, whatever the amount, the owner of the record       *)
(* account and the slot.                                                    *)
(***************************************************************************)
C19_AsClaimed ==
  Phase = "Empty" =>
    /\ \A a \in ExchangeArgs : a.signer => ExchangeResult(a).res = "UninitializedAccount"
    /\ \A a \in ResetArgs : a.signer => ResetResult(a).res = "UninitializedAccount"
    /\ \A a \in CancelArgs : a.signer => CancelResult(a).res = "UninitializedAccount"

C19_State ==
  Phase = "Empty" =>
    /\ \A a \in ExchangeArgs :
         a.signer =>
           ExchangeResult(a) =
             R(IF a.amount # tokens[a.temp].amount
                 THEN "ExpectedAmountMismatch" ELSE "UninitializedAccount",
               0, Chain)
    /\ \A a \in ResetArgs :
         a.signer => ResetResult(a) = R("UninitializedAccount", 0, Chain)
    /\ \A a \in CancelArgs :
         a.signer =>
           CancelResult(a) =
             R(IF ~a.owned \/ ~a.writable THEN "IllegalOwner" ELSE "UninitializedAccount",
               0, Chain)

C19_Step ==
  (Phase = "Empty" /\ last'.op \in {"Exchange", "ResetTimeLock", "Cancel"})
    => /\ last'.res # "Ok"
       /\ last'.cpis = 0
       /\ escrow' = escrow
       /\ tokens' = tokens
       /\ lamports' = lamports

(***************************************************************************)
(* C19  (amended) On a record that was never initialized every Exchange,    *)
(* ResetTimeLock and Cancel of a signer fails, at every slot, with no       *)
(* Token Ledger call and nothing changed.  The error is                     *)
(* UninitializedAccount, except that an Exchange whose amount differs from  *)
(* the balance of the custody account it supplies fails with                *)
(* ExpectedAmountMismatch, and a Cancel whose record account is not owned   *)
(* by the program or not writable fails with IllegalOwner.                  *)
(***************************************************************************)
C19_Uninitialized == [](C19_State) /\ [][C19_Step]_vars

\* after the clock has moved, a signed Cancel found the record uninitialized
C19_Witness ==
  /\ Phase = "Empty"
  /\ slot > 0
  /\ last.op = "Cancel"
  /\ last.res = "UninitializedAccount"
  /\ last.cpis = 0

(***************************************************************************)
(* C20  A Cancel whose record account is not owned by the program or is     *)
(* not writable fails with no Token Ledger call and nothing changed: with   *)
(* MissingRequiredSignature when the caller did not sign, and else with     *)
(* IllegalOwner, whether the record is uninitialized, Open or Closed,       *)
(* whatever the slot and whether or not the accounts match the record.      *)
(***************************************************************************)
C20_State ==
  \A a \in CancelArgs :
    \A s \in BOOLEAN :
      LET b == [a EXCEPT !.signer = s]
          r == CancelResult(b)
      IN  (~b.owned \/ ~b.writable)
            => r = R(IF b.signer THEN "IllegalOwner" ELSE "MissingRequiredSignature",
                     0, Chain)

C20_Step ==
  (last'.op = "Cancel" /\ last'.res = "IllegalOwner")
    => /\ last'.cpis = 0
       /\ escrow' = escrow
       /\ tokens' = tokens
       /\ lamports' = lamports

C20_IllegalOwner == [](C20_State) /\ [][C20_Step]_vars

\* an Open record inside the window line 251 rejects has answered IllegalOwner
C20_Witness ==
  /\ Phase = "Open"
  /\ TimeConstraintRejects(slot, Record.unlock_time)
  /\ last.op = "Cancel"
  /\ last.res = "IllegalOwner"
  /\ last.cpis = 0

\* every precondition of an Exchange with accounts a but the clock: the taker
\* signed, the account list is complete and matches the record, the amount is
\* the custody balance, the Token Ledger accepts the three calls and the
\* lamport sum fits
ExchangeReady(a) ==
  LET custody == Record.temp_token_account_pubkey
  IN  /\ a.signer
      /\ a.nacc >= 9
      /\ Matching(a)
      /\ DistinctTokenAccounts(a)
      /\ \A t \in {a.tsend, a.trecv, a.recv, a.temp} : IsOpenToken(Chain, t)
      /\ a.amount = tokens[custody].amount
      /\ tokens[a.tsend].owner = a.caller
      /\ tokens[a.tsend].amount >= Record.expected_amount
      /\ lamports[a.main] + tokens[custody].lamports + escrow.lamports <= LamportMax

C21_State ==
  /\ Phase = "Open"
       => \A a \in ExchangeArgs : ExchangeReady(a) => ExchangeResult(a).res = "Ok"
  /\ Phase = "Closed"
       => /\ \A a \in ExchangeArgs : ExchangeResult(a).res # "Ok"
          /\ \A a \in CancelArgs : CancelResult(a).res # "Ok"

C21_Step ==
  /\ last'.op = "Tick"
       => \A a \in ExchangeArgs : ExchangeResult(a)' = ExchangeResult(a)
  /\ (last'.op \in {"Exchange", "Cancel"} /\ last'.res = "Ok")
       => (Phase = "Open" /\ Phase' = "Closed")

(***************************************************************************)
(* C21  Exchange does not look at the clock: on an Open record an Exchange  *)
(* whose other preconditions hold succeeds at every slot, before            *)
(* unlock_time, inside the window of line 251 and after it, and a move of   *)
(* the clock changes the result of no Exchange.  So a state can enable      *)
(* both the initializer's Cancel and a taker's Exchange; the one that runs  *)
(* first closes the record, and on the closed record every Exchange and     *)
(* every Cancel fails.                                                      *)
(***************************************************************************)
C21_NoTimeGate == [](C21_State) /\ [][C21_Step]_vars

\* strictly before unlock_time an Open record enables both a taker's Exchange
\* and the initializer's Cancel
C21_Witness ==
  /\ Phase = "Open"
  /\ slot > 0
  /\ slot < Record.unlock_time
  /\ \E a \in ExchangeArgs : ExchangeReady(a) /\ ExchangeResult(a).res = "Ok"
  /\ \E a \in CancelArgs : InitializerCancels(a) /\ CancelResult(a).res = "Ok"

====
